---- MODULE Spec2Model ----
(***************************************************************************)
(* Model of maya/assets.py: the asset classifier (the MayaAsset variants   *)
(* and their validate predicates), the MayaAssetFactory operations and the *)
(* geometry accessor, over a host scene graph.                             *)
(*                                                                         *)
(* A string is a sequence of one-character strings, so that the splitting  *)
(* and the regular-expression matches of the code are computed and not     *)
(* assumed.  A node identifier is the node's long name ("|a|ns:b").        *)
(***************************************************************************)
EXTENDS Naturals, Sequences, FiniteSets

VARIABLES scene, sel, scenePath, ret

vars == <<scene, sel, scenePath, ret>>

(***************************************************************************)
(* Bounds of the model.                                                    *)
(***************************************************************************)
MaxNodes == 4
MaxSel == 2
MaxAux == 1

(***************************************************************************)
(* Strings.                                                                *)
(***************************************************************************)
UpperChars == <<"A","B","C","D","E","F","G","H","I","J","K","L","M",
                "N","O","P","Q","R","S","T","U","V","W","X","Y","Z">>
LowerChars == <<"a","b","c","d","e","f","g","h","i","j","k","l","m",
                "n","o","p","q","r","s","t","u","v","w","x","y","z">>
Digits == {"0","1","2","3","4","5","6","7","8","9"}

\* one character under re.IGNORECASE
Fold(c) ==
    IF \E i \in 1..Len(UpperChars) : UpperChars[i] = c
    THEN LowerChars[CHOOSE i \in 1..Len(UpperChars) : UpperChars[i] = c]
    ELSE c

\* the literal lit occurs in s at position i (1-based); ci: ignoring case
LitAt(s, i, lit, ci) ==
    /\ i >= 1
    /\ i + Len(lit) - 1 <= Len(s)
    /\ \A k \in 1..Len(lit) :
          IF ci THEN Fold(s[i + k - 1]) = Fold(lit[k]) ELSE s[i + k - 1] = lit[k]

\* position of the last occurrence of the character c in s, 0 when absent
LastIndexOf(s, c) ==
    IF \E i \in 1..Len(s) : s[i] = c
    THEN CHOOSE i \in 1..Len(s) : s[i] = c /\ \A j \in (i + 1)..Len(s) : s[j] # c
    ELSE 0

\* s.rsplit(c)[-1]: what follows the last c (all of s when there is none)
LastPiece(s, c) == SubSeq(s, LastIndexOf(s, c) + 1, Len(s))

\* s.rsplit(c, 1)[0]: what precedes the last c (all of s when there is none)
BeforeLast(s, c) ==
    IF LastIndexOf(s, c) = 0 THEN s ELSE SubSeq(s, 1, LastIndexOf(s, c) - 1)

RECURSIVE Split(_, _)
\* s.split(c): the pieces between the occurrences of c, empty ones included
Split(s, c) ==
    IF LastIndexOf(s, c) = 0 THEN <<s>>
    ELSE Append(Split(BeforeLast(s, c), c), LastPiece(s, c))

RECURSIVE Join(_, _)
\* c.join(parts)
Join(parts, c) ==
    IF Len(parts) = 0 THEN <<>>
    ELSE IF Len(parts) = 1 THEN parts[1]
    ELSE Join(SubSeq(parts, 1, Len(parts) - 1), c) \o <<c>> \o parts[Len(parts)]

RECURSIVE NormComps(_, _, _)
\* the component loop of posixpath.normpath
NormComps(comps, new, initial) ==
    IF Len(comps) = 0 THEN new
    ELSE LET comp == Head(comps)
             rest == Tail(comps)
         IN  IF comp = <<>> \/ comp = <<".">> THEN NormComps(rest, new, initial)
             ELSE IF \/ comp # <<".", ".">>
                     \/ (initial = 0 /\ Len(new) = 0)
                     \/ (Len(new) > 0 /\ new[Len(new)] = <<".", ".">>)
                  THEN NormComps(rest, Append(new, comp), initial)
                  ELSE IF Len(new) > 0
                       THEN NormComps(rest, SubSeq(new, 1, Len(new) - 1), initial)
                       ELSE NormComps(rest, new, initial)

\* os.path.normpath on a POSIX host (os.path.sep is "/")
normpath(path) ==
    IF path = <<>> THEN <<".">>
    ELSE LET initial == IF path[1] # "/" THEN 0
                        ELSE IF LitAt(path, 1, <<"/","/">>, FALSE)
                                /\ ~LitAt(path, 1, <<"/","/","/">>, FALSE)
                             THEN 2 ELSE 1
             joined == Join(NormComps(Split(path, "/"), <<>>, initial), "/")
             out == [i \in 1..initial |-> "/"] \o joined
         IN  IF out = <<>> THEN <<".">> ELSE out

\* re.findall of a pattern made of literal characters only: all occurrences
ReFindall(lit, s) == { i \in 1..Len(s) : LitAt(s, i, lit, FALSE) }

(***************************************************************************)
(* The regular expressions of the asset variants, each under re.match,     *)
(* which anchors the pattern at the start of the string and not at its end.*)
(***************************************************************************)
\* CharacterAsset.geo_re = "(?i)geo_grp"
MatchGeoRe(s) == LitAt(s, 1, <<"g","e","o","_","g","r","p">>, TRUE)
\* CharacterAsset.ctls_re = "(?i)ctls_grp"
MatchCtlsRe(s) == LitAt(s, 1, <<"c","t","l","s","_","g","r","p">>, TRUE)
\* CharacterAsset.rig_re = "(?i)rig_grp"
MatchRigRe(s) == LitAt(s, 1, <<"r","i","g","_","g","r","p">>, TRUE)
\* PropAsset.name_re = r"(?i)(.*)_glbl\d?$"
MatchPropRe(s) ==
    \/ LitAt(s, Len(s) - 4, <<"_","g","l","b","l">>, TRUE)
    \/ (Len(s) >= 6 /\ s[Len(s)] \in Digits
          /\ LitAt(s, Len(s) - 5, <<"_","g","l","b","l">>, TRUE))
\* EnvironmentAsset.name_re = "ENV_grp"
MatchEnvRe(s) == LitAt(s, 1, <<"E","N","V","_","g","r","p">>, FALSE)
\* GenericAsset.name_re = "(?i)(.*_grp|.*root)"
MatchGenericRe(s) ==
    \E i \in 1..Len(s) :
        \/ LitAt(s, i, <<"_","g","r","p">>, TRUE)
        \/ LitAt(s, i, <<"r","o","o","t">>, TRUE)

\* simple_node_name: the long name without its hierarchy path and namespace
simple_node_name(node) == LastPiece(LastPiece(node, "|"), ":")

(***************************************************************************)
(* The host scene.  A node is its long name, its object type, the name of  *)
(* the reference node that owns it ("" when the node is not referenced)    *)
(* and, for a shape, whether it is an intermediate object.  Nodes are      *)
(* drawn from a fixed universe, whose order is the order of siblings.      *)
(***************************************************************************)
Ch(parent, name) == parent \o <<"|">> \o name

N_jj      == Ch(<<>>, <<"j","j">>)
N_jjGeo   == Ch(N_jj, <<"j","j","_","g","e","o","_","g","r","p">>)
N_jjCtls  == Ch(N_jj, <<"j","j","_","c","t","l","s","_","g","r","p">>)
N_jjRig   == Ch(N_jj, <<"j","j","_","r","i","g","_","g","r","p">>)
N_cRoot   == Ch(<<>>, <<"c","_","r","o","o","t">>)
N_cGeo    == Ch(N_cRoot, <<"G","E","O","_","g","r","p">>)
N_cBody   == Ch(N_cGeo, <<"b","o","d","y","S","h","a","p","e">>)
N_prop    == Ch(<<>>, <<"b","_","g","l","b","l","1">>)
N_propCrv == Ch(N_prop, <<"c","r","v","S","h","a","p","e">>)
N_propOrg == Ch(N_prop, <<"c","r","v","S","h","a","p","e","O","r","i","g">>)
N_env     == Ch(<<>>, <<"E","N","V","_","g","r","p">>)
N_envShp  == Ch(N_env, <<"E","N","V","_","g","r","p","S","h","a","p","e">>)
N_set     == Ch(<<>>, <<"s","e","t">>)
N_top     == Ch(N_set, <<"r",":","t","o","p">>)
N_mid     == Ch(N_top, <<"q",":","m","i","d">>)
N_leaf    == Ch(N_mid, <<"r",":","l","e","a","f","S","h","a","p","e">>)
N_aGrp    == Ch(N_top, <<"r",":","a","_","g","r","p">>)
N_xRoot   == Ch(<<>>, <<"r",":","x","_","r","o","o","t">>)

NoRef == ""

Node(p, t, r, i) == [path |-> p, type |-> t, ref |-> r, io |-> i]

Universe ==
    << Node(N_jj,      "transform",  NoRef, FALSE),
       Node(N_jjGeo,   "transform",  NoRef, FALSE),
       Node(N_jjCtls,  "transform",  NoRef, FALSE),
       Node(N_jjRig,   "transform",  NoRef, FALSE),
       Node(N_cRoot,   "transform",  NoRef, FALSE),
       Node(N_cGeo,    "transform",  NoRef, FALSE),
       Node(N_cBody,   "mesh",       NoRef, FALSE),
       Node(N_prop,    "transform",  NoRef, FALSE),
       Node(N_propCrv, "nurbsCurve", NoRef, FALSE),
       Node(N_propOrg, "nurbsCurve", NoRef, TRUE),
       Node(N_env,     "transform",  NoRef, FALSE),
       Node(N_envShp,  "mesh",       NoRef, FALSE),
       Node(N_set,     "transform",  NoRef, FALSE),
       Node(N_top,     "transform",  "rRN", FALSE),
       Node(N_mid,     "transform",  "qRN", FALSE),
       Node(N_leaf,    "mesh",       "rRN", FALSE),
       Node(N_aGrp,    "transform",  "rRN", FALSE),
       Node(N_xRoot,   "transform",  "rRN", FALSE) >>

ShapeTypes == {"mesh", "nurbsCurve"}

Paths(S) == { n.path : n \in S }
NodeAt(p) == CHOOSE n \in scene : n.path = p
ParentPath(p) == BeforeLast(p, "|")
\* the position of a node in sibling (and so in DAG) order
Rank(p) == CHOOSE i \in 1..Len(Universe) : Universe[i].path = p

RECURSIVE Ordered(_)
\* a set of long names as a list, in scene order
Ordered(P) ==
    IF P = {} THEN <<>>
    ELSE LET first == CHOOSE p \in P : \A q \in P : Rank(p) <= Rank(q)
         IN  <<first>> \o Ordered(P \ {first})

(***************************************************************************)
(* The host API (maya.cmds) as the module calls it.                        *)
(***************************************************************************)
\* cmds.objectType(node)
objectType(node) == NodeAt(node).type

\* cmds.referenceQuery(node, isNodeReferenced=True)
isNodeReferenced(node) == NodeAt(node).ref # NoRef

\* cmds.referenceQuery(node, rfn=True)
referenceNode(node) == NodeAt(node).ref

\* cmds.listRelatives(nodes, children=True, type="transform", f=True):
\* the children of the given nodes that are transforms
listTransformChildren(nodes) ==
    { n.path : n \in { m \in scene : m.type = "transform"
                                     /\ ParentPath(m.path) \in nodes } }

\* cmds.listRelatives(nodes, children=True, shapes=True [, ni=True]
\* [, type=typ]): the shape children of the given nodes
listShapeChildren(nodes, ni, typ) ==
    { n.path : n \in { m \in scene : /\ m.type \in ShapeTypes
                                     /\ ParentPath(m.path) \in nodes
                                     /\ (ni => ~m.io)
                                     /\ (typ # "" => m.type = typ) } }

\* the nodes a host command acts on when it is given none: the selection
Selected == { sel[i] : i \in 1..Len(sel) }

\* p is node or one of its descendants
UnderOrAt(p, node) ==
    p = node \/ (Len(p) > Len(node) /\ SubSeq(p, 1, Len(node) + 1) = node \o <<"|">>)

\* cmds.ls(node, dag=True, type=typ, l=True)
lsDag(node, typ) ==
    { n.path : n \in { m \in scene : m.type = typ /\ UnderOrAt(m.path, node) } }

(***************************************************************************)
(* Module-level helpers of assets.py.                                      *)
(***************************************************************************)
has_same_reference(node1, node2) ==
    LET node1_is_ref == isNodeReferenced(node1)
        node2_is_ref == isNodeReferenced(node2)
    IN  IF ~(node1_is_ref \/ node2_is_ref) THEN TRUE
        ELSE IF ~(node1_is_ref /\ node2_is_ref) THEN FALSE
        ELSE referenceNode(node1) = referenceNode(node2)

\* cmds.listRelatives(objects, parent=True, type="transform", f=True): the
\* transforms that are parents of the given nodes; given an empty list, the
\* host answers for the selection
listTransformParents(objects) ==
    LET nodes == IF objects = <<>> THEN sel ELSE objects
        parents == [i \in 1..Len(nodes) |-> ParentPath(nodes[i])]
    IN  SelectSeq(parents, LAMBDA o : o \in Paths(scene) /\ objectType(o) = "transform")

\* The test `type != "transform"` compares the builtin type, not typ, and is
\* always true: the parents of the listed objects are returned for every typ.
get_descendants_by_type(node, typ) ==
    LET objects == Ordered(lsDag(node, typ))
    IN  listTransformParents(objects)

RECURSIVE AncestorLoop(_)
\* the while loop of get_ancestors
AncestorLoop(parent) ==
    IF parent = <<>> THEN <<>>
    ELSE <<parent>> \o AncestorLoop(BeforeLast(parent, "|"))

get_ancestors(node) ==
    LET long_name == IF node \in Paths(scene) THEN <<node>> ELSE <<>>
        parent == IF long_name # <<>> THEN BeforeLast(long_name[1], "|") ELSE <<>>
    IN  AncestorLoop(parent)

\* re.match(name_pattern, child) for the patterns filter_from_children is
\* called with (its default ".*" matches every name)
re_match(name_pattern, s) ==
    CASE name_pattern = "(?i)geo_grp"  -> MatchGeoRe(s)
      [] name_pattern = "(?i)ctls_grp" -> MatchCtlsRe(s)
      [] name_pattern = "(?i)rig_grp"  -> MatchRigRe(s)
      [] name_pattern = ".*"           -> TRUE

\* re.match is applied to the child's long name, as listRelatives(f=True)
\* returns it
filter_from_children(node, name_pattern) ==
    SelectSeq(Ordered(listTransformChildren({node})),
              LAMBDA child : re_match(name_pattern, child))

(***************************************************************************)
(* The asset variants.  A class is named by a string; an asset object is   *)
(* its class, its root and its list of auxiliary roots.                    *)
(***************************************************************************)
NoneAsset == [cls |-> "None", root |-> <<>>, aux |-> <<>>]
NewAsset(subc, obj) == [cls |-> subc, root |-> obj, aux |-> <<>>]

\* Subclasses with a seeded fault: GenericAsset defined before EnvironmentAsset
SubclassesGenericEarly == <<"Character", "Prop", "Generic", "Environment", "Vehicle">>

\* MayaAsset.__subclasses__(): the subclasses in definition order
Subclasses == <<"Character", "Prop", "Environment", "Generic", "Vehicle">>

asset_type(subc) ==
    CASE subc = "Character"   -> <<"c","h","a","r">>
      [] subc = "Prop"        -> <<"p","r","o","p">>
      [] subc = "Environment" -> <<"e","n","v","r">>
      [] subc = "Generic"     -> <<"u","n","k","n","o","w","n">>
      [] subc = "Vehicle"     -> <<"v","h","c","l">>

CharacterValidate(node) ==
    IF objectType(node) # "transform" THEN FALSE
    ELSE LET children == listTransformChildren({node})
         IN  IF ~(\E child \in children : MatchGeoRe(simple_node_name(child)))
             THEN FALSE
             ELSE TRUE

\* listRelatives is called without a node: the host answers for the selection
PropValidate(node) ==
    IF objectType(node) # "transform" THEN FALSE
    ELSE IF listShapeChildren(Selected, TRUE, "nurbsCurve") = {} THEN FALSE
    ELSE IF ~MatchPropRe(simple_node_name(node)) THEN FALSE
    ELSE TRUE

\* listRelatives is called without a node: the host answers for the selection
EnvironmentValidate(node) ==
    IF objectType(node) # "transform" THEN FALSE
    ELSE IF listShapeChildren(Selected, FALSE, "") # {} THEN FALSE
    ELSE IF ~MatchEnvRe(simple_node_name(node)) THEN FALSE
    ELSE TRUE

\* GenericValidate with a seeded fault: the object type is not tested
GenericValidateAnyType(node) == MatchGenericRe(simple_node_name(node))

GenericValidate(node) ==
    objectType(node) = "transform" /\ MatchGenericRe(simple_node_name(node))

VehicleValidate(node) == FALSE

validate(subc, node) ==
    CASE subc = "Character"   -> CharacterValidate(node)
      [] subc = "Prop"        -> PropValidate(node)
      [] subc = "Environment" -> EnvironmentValidate(node)
      [] subc = "Generic"     -> GenericValidate(node)
      [] subc = "Vehicle"     -> VehicleValidate(node)

(***************************************************************************)
(* MayaAssetFactory.                                                       *)
(***************************************************************************)
asset_types == SelectSeq(Subclasses, LAMBDA subc : asset_type(subc) # <<>>)

RECURSIVE ClsFromPathLoop(_, _)
\* the loop of get_asset_cls_from_path: the pattern is searched in the tag
\* itself (re.findall(asset_type_re, asset_type)), the path is not read
ClsFromPathLoop(types, path) ==
    IF types = <<>> THEN "None"
    ELSE LET asset_cls == Head(types)
             tag == asset_type(asset_cls)
             asset_type_re == <<"/">> \o tag \o <<"/">>
         IN  IF tag = <<"u","n","k","n","o","w","n">>
             THEN ClsFromPathLoop(Tail(types), path)
             ELSE IF ReFindall(asset_type_re, tag) # {} THEN asset_cls
             ELSE ClsFromPathLoop(Tail(types), path)

get_asset_cls_from_path(path) == ClsFromPathLoop(asset_types, normpath(path))

RECURSIVE FirstValid(_, _)
\* the loop of get_asset: an instance of the first class that validates obj
FirstValid(types, obj) ==
    IF types = <<>> THEN NoneAsset
    ELSE IF validate(Head(types), obj) THEN NewAsset(Head(types), obj)
    ELSE FirstValid(Tail(types), obj)

\* the path argument left out (path=None)
NonePath == <<"None">>

get_asset(obj, pathArg) ==
    LET path == IF pathArg = NonePath THEN scenePath ELSE pathArg
        asset_cls == get_asset_cls_from_path(path)
        types == IF asset_cls # "None" THEN <<asset_cls, "Generic">> ELSE asset_types
    IN  FirstValid(types, obj)

\* cmds.ls("|*", type="transform", l=True): the transforms under the scene
\* root; without recursive=True the wildcard matches no name in a namespace
TopLevelTransforms ==
    Ordered({ n.path : n \in { m \in scene :
                                  /\ m.type = "transform"
                                  /\ ParentPath(m.path) = <<>>
                                  /\ LastIndexOf(LastPiece(m.path, "|"), ":") = 0 } })

find_assets ==
    LET nodes == TopLevelTransforms
        assets == [i \in 1..Len(nodes) |-> get_asset(nodes[i], NonePath)]
    IN  SelectSeq(assets, LAMBDA a : a # NoneAsset)

RECURSIVE RootLoopNoBreak(_, _, _)
\* RootLoop with a seeded fault: an ancestor that does not match is skipped (continue)
\* where the code leaves the loop (break)
RootLoopNoBreak(obj, ancestors, root) ==
    IF ancestors = <<>> THEN root
    ELSE IF ~has_same_reference(obj, Head(ancestors))
         THEN RootLoopNoBreak(obj, Tail(ancestors), root)
         ELSE RootLoopNoBreak(obj, Tail(ancestors), Head(ancestors))

RECURSIVE RootLoop(_, _, _)
\* the for loop over the ancestors of a referenced node
RootLoop(obj, ancestors, root) ==
    IF ancestors = <<>> THEN root
    ELSE IF ~has_same_reference(obj, Head(ancestors)) THEN root
    ELSE RootLoop(obj, Tail(ancestors), Head(ancestors))

\* one iteration of the loop over the selected nodes: the root appended, or
\* the IndexError of ancestors[-1] on an empty list
ResolveRoot(obj) ==
    LET is_referenced == isNodeReferenced(obj)
        ancestors == get_ancestors(obj)
    IN  IF ~is_referenced
        THEN IF ancestors = <<>>
             THEN [raised |-> TRUE, root |-> <<>>]
             ELSE [raised |-> FALSE, root |-> ancestors[Len(ancestors)]]
        ELSE [raised |-> FALSE, root |-> RootLoop(obj, ancestors, obj)]

\* the outcome of a call: what was called on what, how it ended, the roots it
\* resolved, the assets it returned, the node list it returned
Outcome(op, obj, path, status, roots, value, geo) ==
    [op |-> op, obj |-> obj, path |-> path, status |-> status,
     roots |-> roots, value |-> value, geo |-> geo]

NoCall == Outcome("none", <<>>, <<>>, "ok", <<>>, <<>>, <<>>)

get_assets_from_selection ==
    LET selected == sel
        res == [i \in 1..Len(selected) |-> ResolveRoot(selected[i])]
    IN  IF \E i \in 1..Len(res) : res[i].raised
        THEN Outcome("get_assets_from_selection", <<>>, <<>>, "IndexError",
                     <<>>, <<>>, <<>>)
        ELSE LET roots == [i \in 1..Len(res) |-> res[i].root]
                 assets == [i \in 1..Len(roots) |-> get_asset(roots[i], NonePath)]
             IN  Outcome("get_assets_from_selection", <<>>, <<>>, "ok",
                         roots, assets, <<>>)

(***************************************************************************)
(* MayaAsset: the auxiliary roots and the geometry accessor.               *)
(***************************************************************************)
add_auxiliary_root(asset, obj) ==
    IF \E i \in 1..Len(asset.aux) : asset.aux[i] = obj
    THEN asset
    ELSE [asset EXCEPT !.aux = Append(@, obj)]

RECURSIVE GeoOfRoots(_)
GeoOfRoots(roots) ==
    IF roots = <<>> THEN <<>>
    ELSE get_descendants_by_type(Head(roots), "mesh") \o GeoOfRoots(Tail(roots))

\* the list MayaAsset.get_geo builds in geos: the owners of the meshes under
\* the root, then under each auxiliary root
BaseGeos(asset) == GeoOfRoots(<<asset.root>> \o asset.aux)

\* MayaAsset.get_geo builds geos and returns the unbound name geo: every call
\* ends in a NameError
BaseGetGeo(asset) == [status |-> "NameError", geo |-> <<>>]

\* CharacterAsset.geo_grp is filter_from_children(...)[0]: an IndexError on
\* an empty list
CharacterGetGeo(asset) ==
    LET filtered == filter_from_children(asset.root, "(?i)geo_grp")
    IN  IF filtered = <<>>
        THEN [status |-> "IndexError", geo |-> <<>>]
        ELSE [status |-> "ok", geo |-> get_descendants_by_type(filtered[1], "mesh")]

get_geo(asset) ==
    IF asset.cls = "Character" THEN CharacterGetGeo(asset) ELSE BaseGetGeo(asset)

(***************************************************************************)
(* The state machine.  scene, sel and scenePath are the host's state; ret  *)
(* is what the caller has in hand: the outcome of the last call and the    *)
(* asset objects it returned, or the one asset the caller kept of them.    *)
(* A change of the host's state starts a new round of queries and drops    *)
(* what the round before returned, so that ret always belongs to the       *)
(* present scene and selection.                                            *)
(***************************************************************************)
\* cmds.file(q=True, sn=True) answers "" for a scene never saved
F_untitled == <<>>
F_char == <<"/","a","/","c","h","a","r","/","e",".","m","a">>
F_prop == <<"/","a","/","p","r","o","p","/","p",".","m","a">>
\* the scene files open_file is given
ScenePaths == {F_char, F_prop}

\* the nodes (positions in Universe) that the work on a scene file creates
Content(p) ==
    CASE p = F_untitled -> 13..18
      [] p = F_char     -> 1..7
      [] p = F_prop     -> 8..12

\* an explicit path argument of get_asset, or none
ArgPaths ==
    { NonePath,
      <<"/","a","/","/","p","r","o","p","/",".","/","b",".","m","a">> }

Init ==
    /\ scene = {}
    /\ sel = <<>>
    /\ scenePath = F_untitled
    /\ ret = NoCall

\* open_file of the test script: the file is opened, replacing the scene,
\* unless it is the scene's file already
OpenFile(p) ==
    /\ scenePath # p
    /\ scenePath' = p
    /\ scene' = {}
    /\ sel' = <<>>
    /\ ret' = NoCall

\* the host creates a node under an existing parent or under the scene root
CreateNode(i) ==
    /\ Cardinality(scene) < MaxNodes
    /\ i \in Content(scenePath)
    /\ Universe[i] \notin scene
    /\ ParentPath(Universe[i].path) = <<>>
         \/ ParentPath(Universe[i].path) \in Paths(scene)
    /\ scene' = scene \cup {Universe[i]}
    /\ ret' = NoCall
    /\ UNCHANGED <<sel, scenePath>>

\* the user adds a node to the selection
Select(node) ==
    /\ Len(sel) < MaxSel
    /\ node \in Paths(scene)
    /\ node \notin Selected
    /\ sel' = Append(sel, node)
    /\ ret' = NoCall
    /\ UNCHANGED <<scene, scenePath>>

\* the user clears the selection
ClearSelection ==
    /\ sel # <<>>
    /\ sel' = <<>>
    /\ ret' = NoCall
    /\ UNCHANGED <<scene, scenePath>>

GetAsset(obj, pathArg) ==
    /\ obj \in Paths(scene)
    /\ ret' = Outcome("get_asset", obj,
                      IF pathArg = NonePath THEN scenePath ELSE pathArg,
                      "ok", <<>>, <<get_asset(obj, pathArg)>>, <<>>)
    /\ UNCHANGED <<scene, sel, scenePath>>

\* find_assets(include_ref): the assert refuses include_ref=True
FindAssets(include_ref) ==
    /\ ret' = IF include_ref
              THEN Outcome("find_assets", <<>>, <<>>, "AssertionError",
                           <<>>, <<>>, <<>>)
              ELSE Outcome("find_assets", <<>>, <<>>, "ok", <<>>, find_assets, <<>>)
    /\ UNCHANGED <<scene, sel, scenePath>>

GetAssetsFromSelection ==
    /\ ret' = get_assets_from_selection
    /\ UNCHANGED <<scene, sel, scenePath>>

FactoryOps == {"get_asset", "find_assets", "get_assets_from_selection"}
AssetOps == {"keep", "add_auxiliary_root", "get_geo"}

\* the caller keeps one asset of the list a factory operation returned
Keep(i) ==
    /\ ret.op \in FactoryOps
    /\ ret.status = "ok"
    /\ i \in 1..Len(ret.value)
    /\ ret.value[i] # NoneAsset
    /\ ret' = Outcome("keep", <<>>, <<>>, "ok", <<>>, <<ret.value[i]>>, <<>>)
    /\ UNCHANGED <<scene, sel, scenePath>>

\* the top-level groups of the scene, in or out of a namespace: the nodes the
\* caller folds into an asset
TopLevelGroups ==
    Ordered({ n.path : n \in { m \in scene : m.type = "transform"
                                             /\ ParentPath(m.path) = <<>> } })

\* asset.add_auxiliary_root(obj) on the kept asset, obj a top-level group
AddAuxiliaryRoot(obj) ==
    /\ ret.op \in AssetOps
    /\ Len(add_auxiliary_root(ret.value[1], obj).aux) <= MaxAux
    /\ ret' = Outcome("add_auxiliary_root", obj, <<>>, "ok", <<>>,
                      <<add_auxiliary_root(ret.value[1], obj)>>, <<>>)
    /\ UNCHANGED <<scene, sel, scenePath>>

\* asset.get_geo() on the kept asset
GetGeo ==
    /\ ret.op \in AssetOps
    /\ ret' = Outcome("get_geo", <<>>, <<>>, get_geo(ret.value[1]).status,
                      <<>>, ret.value, get_geo(ret.value[1]).geo)
    /\ UNCHANGED <<scene, sel, scenePath>>

Next ==
    \/ \E p \in ScenePaths : OpenFile(p)
    \/ \E i \in 1..Len(Universe) : CreateNode(i)
    \/ \E n \in Paths(scene) : Select(n)
    \/ ClearSelection
    \/ \E obj \in Paths(scene), pathArg \in ArgPaths : GetAsset(obj, pathArg)
    \/ \E include_ref \in BOOLEAN : FindAssets(include_ref)
    \/ GetAssetsFromSelection
    \/ \E i \in 1..Len(ret.value) : Keep(i)
    \/ \E i \in 1..Len(TopLevelGroups) : AddAuxiliaryRoot(TopLevelGroups[i])
    \/ GetGeo

Spec == Init /\ [][Next]_vars

(***************************************************************************)
(* Vocabulary of the properties.                                           *)
(***************************************************************************)
EndsWith(s, lit) == LitAt(s, Len(s) - Len(lit) + 1, lit, FALSE)

\* the top-level group above p: p up to its second "|"
TopOf(p) ==
    IF \E i \in 2..Len(p) : p[i] = "|"
    THEN SubSeq(p, 1, (CHOOSE i \in 2..Len(p) :
                          p[i] = "|" /\ \A j \in 2..(i - 1) : p[j] # "|") - 1)
    ELSE p

\* a is a proper ancestor of p
IsAncestor(a, p) == a # p /\ UnderOrAt(p, a)

SelectionCall == ret.op = "get_assets_from_selection"
SelectionDone == SelectionCall /\ ret.status = "ok"
GetAssetCall == ret.op = "get_asset"

\* the children of node are named <prefix>_geo_grp, <prefix>_ctls_grp and
\* <prefix>_rig_grp
HasRigGroups(node) ==
    /\ objectType(node) = "transform"
    /\ \E g, c, r \in listTransformChildren({node}) :
          /\ EndsWith(simple_node_name(g), <<"_","g","e","o","_","g","r","p">>)
          /\ EndsWith(simple_node_name(c), <<"_","c","t","l","s","_","g","r","p">>)
          /\ EndsWith(simple_node_name(r), <<"_","r","i","g","_","g","r","p">>)

\* the path has a folder segment equal to the tag of the class
HasTagSegment(path, subc) ==
    ReFindall(<<"/">> \o asset_type(subc) \o <<"/">>, normpath(path)) # {}

TaggedClasses == SelectSeq(Subclasses, LAMBDA c : c # "Generic")

\* the candidates the path narrows get_asset to: the variant of the first tag
\* found in the path followed by Generic, all the variants without a tag
NarrowedTypes(path) ==
    LET hit == SelectSeq(TaggedClasses, LAMBDA c : HasTagSegment(path, c))
    IN  IF hit # <<>> THEN <<hit[1], "Generic">> ELSE Subclasses

\* the transforms that own the meshes under node, in scene order
MeshOwners(node) ==
    LET meshes == Ordered(lsDag(node, "mesh"))
    IN  [i \in 1..Len(meshes) |-> ParentPath(meshes[i])]

RECURSIVE MeshOwnersOfRoots(_)
MeshOwnersOfRoots(roots) ==
    IF roots = <<>> THEN <<>>
    ELSE MeshOwners(Head(roots)) \o MeshOwnersOfRoots(Tail(roots))

\* the child of a Character root that validate matched as geometry group
GeoGroupOf(root) ==
    CHOOSE child \in listTransformChildren({root}) :
        MatchGeoRe(simple_node_name(child))

(***************************************************************************)
(* C1.  Every selected node that is not referenced, at any depth and also  *)
(* directly under the scene root, resolves to the top-level group of its   *)
(* hierarchy, and get_assets_from_selection raises no error.               *)
(***************************************************************************)
C1_UnreferencedResolvesToTop ==
    SelectionCall =>
        /\ ret.status = "ok"
        /\ \A i \in 1..Len(sel) :
              ~isNodeReferenced(sel[i]) => ret.roots[i] = TopOf(sel[i])

(***************************************************************************)
(* C2.  The root resolved for a referenced selected node is the node       *)
(* itself or one of its ancestors r, every ancestor from the parent up to  *)
(* r is in the node's reference group, and the parent of r, if any, is     *)
(* not: resolution stops at the first ancestor that does not match, even   *)
(* when a higher one matches again.                                        *)
(***************************************************************************)
C2_ReferencedRootStopsAtBoundary ==
    SelectionDone =>
        \A i \in 1..Len(sel) :
            isNodeReferenced(sel[i]) =>
                LET obj == sel[i]
                    r == ret.roots[i]
                IN  /\ UnderOrAt(obj, r)
                    /\ r \in Paths(scene)
                    /\ \A a \in Paths(scene) :
                          (IsAncestor(a, obj) /\ UnderOrAt(a, r))
                              => has_same_reference(obj, a)
                    /\ ParentPath(r) # <<>>
                          => ~has_same_reference(obj, ParentPath(r))

\* a referenced node was selected whose parent is of another reference and
\* whose grandparent is of its own: the node itself is the root
C2_Witness ==
    /\ SelectionDone
    /\ \E i \in 1..Len(sel) :
          /\ isNodeReferenced(sel[i])
          /\ ParentPath(ParentPath(sel[i])) # <<>>
          /\ ~has_same_reference(sel[i], ParentPath(sel[i]))
          /\ has_same_reference(sel[i], ParentPath(ParentPath(sel[i])))
          /\ ret.roots[i] = sel[i]

(***************************************************************************)
(* C3.  get_asset on a transform whose children are named                  *)
(* <prefix>_geo_grp, <prefix>_ctls_grp and <prefix>_rig_grp returns a      *)
(* CharacterAsset.                                                         *)
(***************************************************************************)
C3_RigGroupsYieldCharacter ==
    (GetAssetCall /\ HasRigGroups(ret.obj)) => ret.value[1].cls = "Character"

(***************************************************************************)
(* C4.  get_asset on a transform that has a nurbs-curve shape child and a  *)
(* name matching *_glbl or *_glbl<digit> returns a PropAsset, whatever is  *)
(* selected.                                                               *)
(***************************************************************************)
C4_CurveGlblYieldsProp ==
    ( /\ GetAssetCall
      /\ objectType(ret.obj) = "transform"
      /\ listShapeChildren({ret.obj}, TRUE, "nurbsCurve") # {}
      /\ MatchPropRe(simple_node_name(ret.obj)) )
        => ret.value[1].cls = "Prop"

(***************************************************************************)
(* C5.  get_asset on a childless transform named ENV_grp returns an        *)
(* EnvironmentAsset, whatever is selected.                                 *)
(***************************************************************************)
C5_ChildlessEnvYieldsEnvironment ==
    ( /\ GetAssetCall
      /\ objectType(ret.obj) = "transform"
      /\ \A n \in scene : ParentPath(n.path) # ret.obj
      /\ simple_node_name(ret.obj) = <<"E","N","V","_","g","r","p">> )
        => ret.value[1].cls = "Environment"

(***************************************************************************)
(* C6.  A path with a folder segment equal to an asset-type tag narrows    *)
(* the candidates of get_asset to that tag's variant followed by Generic;  *)
(* a path without one leaves all the variants.                             *)
(***************************************************************************)
C6_PathNarrowsCandidates ==
    GetAssetCall => ret.value[1] = FirstValid(NarrowedTypes(ret.path), ret.obj)

(***************************************************************************)
(* C7.  With no type inferred from the path, get_asset returns an instance *)
(* of the first variant that validates the node, in the order Character,   *)
(* Prop, Environment, Generic, Vehicle, and nothing when none does: a      *)
(* GenericAsset only if Character, Prop and Environment reject, never a    *)
(* VehicleAsset.                                                           *)
(***************************************************************************)
C7_FirstMatchInRegistrationOrder ==
    (GetAssetCall /\ get_asset_cls_from_path(ret.path) = "None") =>
        LET Order == <<"Character", "Prop", "Environment", "Generic", "Vehicle">>
            a == ret.value[1]
        IN  /\ (\A k \in 1..5 : ~validate(Order[k], ret.obj)) => a = NoneAsset
            /\ \A k \in 1..5 :
                  ( /\ validate(Order[k], ret.obj)
                    /\ \A j \in 1..(k - 1) : ~validate(Order[j], ret.obj) )
                      => a = [cls |-> Order[k], root |-> ret.obj, aux |-> <<>>]
            /\ a.cls = "Generic" =>
                  /\ ~CharacterValidate(ret.obj)
                  /\ ~PropValidate(ret.obj)
                  /\ ~EnvironmentValidate(ret.obj)
            /\ a.cls # "Vehicle"

\* two variants validate the node and the earlier one was returned
C7_Witness ==
    /\ GetAssetCall
    /\ EnvironmentValidate(ret.obj)
    /\ GenericValidate(ret.obj)
    /\ ret.value[1].cls = "Environment"

(***************************************************************************)
(* C8.  The root of every asset a factory operation returns is a           *)
(* transform of the scene.                                                 *)
(***************************************************************************)
C8_AssetRootIsTransform ==
    ret.op \in FactoryOps =>
        \A i \in 1..Len(ret.value) :
            ret.value[i] # NoneAsset =>
                /\ ret.value[i].root \in Paths(scene)
                /\ NodeAt(ret.value[i].root).type = "transform"

\* a shape was selected and an asset came back, rooted at a transform
C8_Witness ==
    /\ SelectionDone
    /\ \E i \in 1..Len(sel) :
          /\ objectType(sel[i]) # "transform"
          /\ ret.value[i] # NoneAsset

(***************************************************************************)
(* C9.  The lists find_assets and get_assets_from_selection return hold no *)
(* absent (None) entry.                                                    *)
(***************************************************************************)
C9_NoAbsentEntryInLists ==
    (ret.op \in {"find_assets", "get_assets_from_selection"} /\ ret.status = "ok")
        => \A i \in 1..Len(ret.value) : ret.value[i] # NoneAsset

(***************************************************************************)
(* C10.  get_geo on a returned asset, after any add_auxiliary_root calls,  *)
(* raises nothing and returns the owners of the meshes: under the root and *)
(* then under each auxiliary root for Prop, Environment and Generic, under *)
(* the geometry group for Character.                                       *)
(***************************************************************************)
C10_GetGeoReturnsMeshOwners ==
    ret.op = "get_geo" =>
        /\ ret.status = "ok"
        /\ ret.geo = IF ret.value[1].cls = "Character"
                     THEN MeshOwners(GeoGroupOf(ret.value[1].root))
                     ELSE MeshOwnersOfRoots(<<ret.value[1].root>> \o ret.value[1].aux)

====
